---- MODULE Spec2Model ----
(***************************************************************************)
(* deplex PlaneExtractor: the per-frame pipeline of                        *)
(* src/cpp/deplex/src/deplex/algorithm/plane_extractor.cpp and the normal  *)
(* histogram of src/cpp/deplex/src/deplex/histogram.cpp.                   *)
(*                                                                         *)
(* Geometry.  The point cloud is taken from a family of scenes in which    *)
(* the fitted plane of a cell is one of a few orientations (mutually       *)
(* orthogonal normals, so the cosine of two normals is 1 or 0) and every   *)
(* point of a cell lies at one depth z along each of these normals.  The   *)
(* signed distance of a point at depth z to a plane of mean depth m is     *)
(* then m - z.  Lengths are fixed point: a length is stored as an integer  *)
(* number of 1/lenDen units, means and mean squared errors as reduced      *)
(* fractions.  Cells are numbered row-major from 0, as stacked_cell_id.    *)
(***************************************************************************)
EXTENDS Integers, Sequences, FiniteSets, TLC

VARIABLES
  config,                      \* config_ and the fixed-point scale of the scene family
  image_height,                \* image_height_
  image_width,                 \* image_width_
  cell_grid,                   \* cell_grid_: cell id -> CellSegment or NullPtr
  grid_plane_seg_map,          \* grid_plane_seg_map_: cell id -> plane id (0 = none)
  grid_plane_seg_map_eroded,   \* grid_plane_seg_map_eroded_
  seg_map_stacked,             \* seg_map_stacked_: stacked pixel id -> label
  pc,                          \* position inside process()
  pcd,                         \* the organized input of the current call: cell id -> cell kind
  hist,                        \* Histogram: [hist |-> bin -> count, bins |-> cell -> bin or -1]
  cell_dist_tols,              \* cell id -> squared tolerance
  unassigned_mask,             \* set of cell ids
  remaining_planar_cells,
  plane_segments,              \* 0-based vector of shared pointers: the seed's cell id
  merge_labels,                \* 0-based vector of 0-based root indices
  plane_segments_final,        \* plane_segments_final of refinePlanes
  labels,                      \* the label image of process(): [rows, cols, data]
  activated,                   \* history: cell id -> number of grows that activated it
  stamped,                     \* history: cell id -> number of writes to its grid_plane_seg_map_ entry
  last_activation,             \* history: activation_map of the last grow iteration
  seeds,                       \* history: seed_id of every grow iteration of the call
  organized_array,             \* organized_array of process(): element index -> index of the
                               \* element of pcd_array copied there, or -1 (not written)
  stacked_id,                  \* stacked_id of organizeByCell
  grown_segments               \* history: the plane segments as createPlaneSegments returned them

vars == << config, image_height, image_width, cell_grid, grid_plane_seg_map,
           grid_plane_seg_map_eroded, seg_map_stacked, pc, pcd, hist,
           cell_dist_tols, unassigned_mask, remaining_planar_cells,
           plane_segments, merge_labels, plane_segments_final, labels,
           activated, stamped, last_activation, seeds, organized_array,
           stacked_id, grown_segments >>

----------------------------------------------------------------------------
(* Bounds of the model *)

\* largest number of cells of a cell grid
MaxCells == 4

\* organizeByCell is followed for patch sizes up to MaxPatch on grids of up to
\* MaxGridSide cells a side
MaxPatch == 3

MaxGridSide == 2

\* INT_MAX, for an int narrowed to 8 bits so that the MSE of a cell reaches it
IntMax == 127

----------------------------------------------------------------------------
(* Arithmetic helpers *)

Abs(x) == IF x < 0 THEN -x ELSE x

Min(a, b) == IF a < b THEN a ELSE b

Max(a, b) == IF a > b THEN a ELSE b

RECURSIVE Gcd(_, _)
Gcd(a, b) == IF b = 0 THEN a ELSE Gcd(b, a % b)

\* the fraction num/den (den > 0) in lowest terms
Reduce(num, den) ==
  LET g == Gcd(Abs(num), den) IN
    IF g = 0 THEN << 0, 1 >> ELSE << num \div g, den \div g >>

NullPtr == [null |-> TRUE]

----------------------------------------------------------------------------
(* Geometry of the instance *)

PatchSize(cfg) == cfg.patchSize

HCells(h, cfg) == h \div PatchSize(cfg)

WCells(w, cfg) == w \div PatchSize(cfg)

nr_horizontal_cells == WCells(image_width, config)

nr_vertical_cells == HCells(image_height, config)

nr_total_cells == nr_horizontal_cells * nr_vertical_cells

nr_pts_per_cell == PatchSize(config) * PatchSize(config)

Cells == 0 .. (nr_total_cells - 1)

Pixels == 0 .. (image_height * image_width - 1)

----------------------------------------------------------------------------
(* CellSegment and its statistics *)

\* cosine of the angle of two fitted normals, in percent
CosAngle(a, b) == IF a.o = b.o THEN 100 ELSE 0

\* recompute mean and MSE from the accumulated sums
CalculateStats(s) ==
  LET m == Reduce(s.sz, s.n)
      e == Reduce(s.n * s.szz - s.sz * s.sz, s.n * s.n)
  IN [s EXCEPT !.mn = m[1], !.md = m[2], !.en = e[1], !.ed = e[2]]

\* operator+=: the sums of other are added; the derived values stay as they are
AddStats(s, other) ==
  [s EXCEPT !.n = s.n + other.n, !.sz = s.sz + other.sz, !.szz = s.szz + other.szz]

\* the CellSegment built from the points of one cell
NewCellSegment(kind, cfg) ==
  LET n == PatchSize(cfg) * PatchSize(cfg) IN
    CalculateStats([planar |-> kind.planar, o |-> kind.o, n |-> n,
                    sz |-> n * kind.z,
                    szz |-> n * (kind.z * kind.z + kind.mse),
                    mn |-> 0, md |-> 1, en |-> 0, ed |-> 1])

\* getScore() > minRegionPlanarityScore; the score is the in-plane spread
\* over the spread along the normal
ScoreAbove(s, cfg) ==
  s.en = 0 \/ cfg.spread * s.ed > cfg.minRegionPlanarityScore * s.en

\* squared signed distance of the mean of b to the plane of a, as the pair
\* << numerator, denominator >> in squared units
SqDistToPlane(a, b) ==
  LET d == a.mn * b.md - b.mn * a.md IN << d * d, (a.md * b.md) * (a.md * b.md) >>

----------------------------------------------------------------------------
(* organizeByCell *)

\* shift for the pixel with stacked_id t of an image w pixels wide, wc cells a row
Shift(t, w, cfg, wc) ==
  LET patch_size == PatchSize(cfg)
      r == t \div w
      c == t % w
      cell_r == r \div patch_size
      local_r == r % patch_size
      cell_c == c \div patch_size
      local_c == c % patch_size
  IN (cell_r * wc + cell_c) * patch_size * patch_size + local_r * patch_size + local_c

\* the three assignments of the loop body for stacked_id t: out holds mxn
\* x values, then mxn y values, then mxn z values; an assignment past the end
\* of out leaves out as it is
OrganizeWrite(out, t, shift, mxn) ==
  [i \in DOMAIN out |->
     IF \E k \in 0 .. 2 : i = k * mxn + shift THEN (i - shift) + t ELSE out[i]]

\* some assignment of organizeByCell is past the end of out
WritesPastEnd(h, w, cfg) ==
  \E t \in 0 .. (h * w - 1) : Shift(t, w, cfg, WCells(w, cfg)) >= h * w

----------------------------------------------------------------------------
(* Histogram (histogram.cpp) *)

\* the polar angle of a normal as a fraction of [0, pi]
PolarFrac(o) == IF o = 0 THEN << 0, 1 >> ELSE << 1, 2 >>

\* the azimuth of a normal as a fraction of [-pi, pi]
AzimuthFrac(o) == IF o = 0 THEN << 0, 1 >> ELSE << 1, 4 >>

BinOf(o, nr_bins_per_coord) ==
  LET X_q == ((nr_bins_per_coord - 1) * PolarFrac(o)[1]) \div PolarFrac(o)[2]
      Y_q == IF X_q > 0
             THEN ((nr_bins_per_coord - 1) * AzimuthFrac(o)[1]) \div AzimuthFrac(o)[2]
             ELSE 0
  IN Y_q * nr_bins_per_coord + X_q

\* a variant that bins every cell, masked or not; C21 tells it from NewHistogram
NewHistogramUnmasked(nr_bins_per_coord, grid, mask, cells) ==
  LET binsOf == [i \in cells |-> BinOf(grid[i].o, nr_bins_per_coord)]
  IN [hist |-> [b \in 0 .. (nr_bins_per_coord * nr_bins_per_coord - 1) |->
                   Cardinality({i \in cells : binsOf[i] = b})],
      bins |-> binsOf]

NewHistogram(nr_bins_per_coord, grid, mask, cells) ==
  LET binsOf == [i \in cells |->
                   IF i \in mask THEN BinOf(grid[i].o, nr_bins_per_coord) ELSE -1]
  IN [hist |-> [b \in 0 .. (nr_bins_per_coord * nr_bins_per_coord - 1) |->
                   Cardinality({i \in cells : binsOf[i] = b})],
      bins |-> binsOf]

\* std::max_element: the first bin holding the largest count
MostFrequentBin(h) ==
  CHOOSE b \in DOMAIN h.hist :
    /\ \A c \in DOMAIN h.hist : h.hist[c] <= h.hist[b]
    /\ \A c \in DOMAIN h.hist : c < b => h.hist[c] < h.hist[b]

\* the ids of the points in the most frequent bin (ascending), as a set
GetPointsFromMostFrequentBin(h) ==
  LET b == MostFrequentBin(h) IN
    IF h.hist[b] > 0 THEN {i \in DOMAIN h.bins : h.bins[i] = b} ELSE {}

\* a variant that forgets the bin counter; C11 tells it from RemovePoint
RemovePointKeepsCount(h, point_id) ==
  [hist |-> h.hist, bins |-> [h.bins EXCEPT ![point_id] = -1]]

RemovePoint(h, point_id) ==
  [hist |-> [h.hist EXCEPT ![h.bins[point_id]] = @ - 1],
   bins |-> [h.bins EXCEPT ![point_id] = -1]]

----------------------------------------------------------------------------
(* Program constants *)

\* min_merge_dist of computeCellDistTols
MinMergeDist == 20

----------------------------------------------------------------------------
(* computeCellDistTols *)

CellDistTol(kind, cfg) ==
  LET truncated_distance ==
        Min(Max(kind.diamSin, MinMergeDist * cfg.lenDen), cfg.maxMergeDist)
  IN truncated_distance * truncated_distance

ComputeCellDistTols(input, cfg, cells) ==
  [c \in cells |-> IF input[c].planar THEN CellDistTol(input[c], cfg) ELSE 0]

----------------------------------------------------------------------------
(* growSeed *)

\* the compatibility test of growSeed: TRUE when the cell is rejected
GrowRejects(prev, cell, tol, cfg) ==
  LET sq == SqDistToPlane(prev, cell) IN
    \/ CosAngle(prev, cell) < cfg.minCosAngleForMerge
    \/ sq[1] > tol * sq[2]

\* the result of growSeed(x, y, prev_index, ...): the activation map, and
\* whether the out_of_range guard threw
RECURSIVE GrowSeed(_, _, _, _, _, _, _, _, _, _)
GrowSeed(x, y, prev_index, unassigned, res, grid, tols, cfg, wc, hc) ==
  LET index == x + wc * y IN
    IF res.oor THEN res
    ELSE IF index >= wc * hc THEN [res EXCEPT !.oor = TRUE]
    ELSE IF index \notin unassigned \/ index \in res.act THEN res
    ELSE IF GrowRejects(grid[prev_index], grid[index], tols[index], cfg) THEN res
    ELSE
      LET r0 == [res EXCEPT !.act = @ \cup {index}]
          r1 == IF x > 0
                THEN GrowSeed(x - 1, y, index, unassigned, r0, grid, tols, cfg, wc, hc)
                ELSE r0
          r2 == IF x < wc - 1
                THEN GrowSeed(x + 1, y, index, unassigned, r1, grid, tols, cfg, wc, hc)
                ELSE r1
          r3 == IF y > 0
                THEN GrowSeed(x, y - 1, index, unassigned, r2, grid, tols, cfg, wc, hc)
                ELSE r2
          r4 == IF y < hc - 1
                THEN GrowSeed(x, y + 1, index, unassigned, r3, grid, tols, cfg, wc, hc)
                ELSE r3
      IN r4

----------------------------------------------------------------------------
(* createPlaneSegments: one iteration of the while loop *)

SetMin(S) == CHOOSE m \in S : \A e \in S : m <= e

\* a.getMSE() < b.getMSE()
MseLess(a, b) == a.en * b.ed < b.en * a.ed

\* the seed: the first candidate (ascending) whose MSE is below every earlier one
SelectSeed(seed_candidates, grid) ==
  CHOOSE s \in seed_candidates :
    /\ \A c \in seed_candidates : ~MseLess(grid[c], grid[s])
    /\ \A c \in seed_candidates : c < s => MseLess(grid[s], grid[c])

\* getMSE() < min_mse with min_mse = INT_MAX, the first test of the selection loop
BelowIntMax(s, cfg) == s.en < IntMax * s.ed * cfg.lenDen * cfg.lenDen

\* the values seed_id can hold after the selection loop: the selected candidate
\* or, when no candidate has an MSE below INT_MAX, the value of the
\* uninitialised int: the index of any cell, or an index outside cell_grid_,
\* below it (-1) or above it (cell_grid_.size())
SeedChoices(seed_candidates, grid, cfg) ==
  IF \E c \in seed_candidates : BelowIntMax(grid[c], cfg)
  THEN {SelectSeed(seed_candidates, grid)}
  ELSE DOMAIN grid \cup {-1, Cardinality(DOMAIN grid)}

\* step 4: *new_segment += *cell_grid_[i] for the activated cells, ascending;
\* new_segment is the object cell_grid_[seed_id] itself
RECURSIVE MergeActivated(_, _, _, _)
MergeActivated(seg, todo, seed_id, grid) ==
  IF todo = {} THEN seg
  ELSE LET i == SetMin(todo) IN
    MergeActivated(AddStats(seg, IF i = seed_id THEN seg ELSE grid[i]),
                   todo \ {i}, seed_id, grid)

RECURSIVE RemovePoints(_, _)
RemovePoints(h, todo) ==
  IF todo = {} THEN h
  ELSE LET i == SetMin(todo) IN RemovePoints(RemovePoint(h, i), todo \ {i})

\* a variant that drops the new segment; C12 tells it from PushBack
NotPushed(vec, e) == vec

\* plane_segments.push_back on a 0-based vector
PushBack(vec, e) ==
  LET k == Cardinality(DOMAIN vec) IN
    [i \in 0 .. k |-> IF i < k THEN vec[i] ELSE e]

Size(vec) == Cardinality(DOMAIN vec)

\* a variant that leaves the activated cells unassigned; C7 tells it from
\* ClearActivated
KeepActivated(unassigned, activation_map) == unassigned

\* unassigned_mask &= (~activation_map)
ClearActivated(unassigned, activation_map) == unassigned \ activation_map

\* st: [grid, hist, unassigned, remaining, segments, seg_map]
\* the body of the loop from growing seed_id to marking the cells
GrowIterationFrom(st, seed_id, tols, cfg, wc, hc) ==
  LET grown == GrowSeed(seed_id % wc, seed_id \div wc, seed_id, st.unassigned,
                        [act |-> {}, oor |-> FALSE], st.grid, tols, cfg, wc, hc)
      activation_map == grown.act
      summed == MergeActivated(st.grid[seed_id], activation_map, seed_id, st.grid)
      nr_cells_activated == Cardinality(activation_map)
      kept == nr_cells_activated >= cfg.minRegionGrowingCellsActivated
      new_segment == IF kept THEN CalculateStats(summed) ELSE summed
      emitted == kept /\ ScoreAbove(new_segment, cfg)
      nr_curr_planes == Size(st.segments) + 1
  IN [grid |-> [st.grid EXCEPT ![seed_id] = new_segment],
      hist |-> RemovePoints(st.hist, activation_map),
      unassigned |-> ClearActivated(st.unassigned, activation_map),
      remaining |-> st.remaining - nr_cells_activated,
      segments |-> IF emitted THEN PushBack(st.segments, seed_id) ELSE st.segments,
      seg_map |-> IF emitted
                  THEN [c \in DOMAIN st.seg_map |->
                          IF c \in activation_map THEN nr_curr_planes ELSE st.seg_map[c]]
                  ELSE st.seg_map,
      act |-> activation_map,
      emitted |-> emitted,
      oor |-> grown.oor]

\* the body of the loop with the seed its selection loop finds
GrowIteration(st, tols, cfg, wc, hc) ==
  GrowIterationFrom(st, SelectSeed(GetPointsFromMostFrequentBin(st.hist), st.grid),
                    tols, cfg, wc, hc)

\* the loop's two exits: the while condition, and too few seed candidates
GrowLoopEnds(st, cfg) ==
  \/ st.remaining <= 0
  \/ Cardinality(GetPointsFromMostFrequentBin(st.hist)) < cfg.minRegionGrowingCandidateSize

----------------------------------------------------------------------------
(* getConnectedComponents and mergePlanes *)

\* the association matrix after the scan and the symmetrisation, as the set
\* of pairs << a, b >> of 0-based plane indices with assoc[a][b] set
GetConnectedComponents(seg_map, wc, hc) ==
  LET scanned ==
        { << seg_map[r * wc + c] - 1, seg_map[r * wc + c + 1] - 1 >> :
            << r, c >> \in { rc \in (0 .. (hc - 2)) \X (0 .. (wc - 2)) :
               /\ seg_map[rc[1] * wc + rc[2]] > 0
               /\ seg_map[rc[1] * wc + rc[2] + 1] > 0
               /\ seg_map[rc[1] * wc + rc[2]] # seg_map[rc[1] * wc + rc[2] + 1] } }
        \cup
        { << seg_map[r * wc + c] - 1, seg_map[(r + 1) * wc + c] - 1 >> :
            << r, c >> \in { rc \in (0 .. (hc - 2)) \X (0 .. (wc - 2)) :
               /\ seg_map[rc[1] * wc + rc[2]] > 0
               /\ seg_map[(rc[1] + 1) * wc + rc[2]] > 0
               /\ seg_map[rc[1] * wc + rc[2]] # seg_map[(rc[1] + 1) * wc + rc[2]] } }
  IN scanned \cup { << p[2], p[1] >> : p \in scanned }

\* a variant of the test that looks at the angle only; C9 tells it from
\* MergeAccepts
MergeAcceptsAngleOnly(plane, col, cfg) ==
  CosAngle(plane, col) > cfg.minCosAngleForMerge

\* the test of mergePlanes on plane_id and col_id
MergeAccepts(plane, col, cfg) ==
  LET sq == SqDistToPlane(plane, col) IN
    /\ CosAngle(plane, col) > cfg.minCosAngleForMerge
    /\ sq[1] < cfg.maxMergeDist * cfg.lenDen * sq[2]

\* the inner loop of mergePlanes over the set columns above row_id, ascending
\* ms: [grid, labels, expanded]
RECURSIVE MergeRow(_, _, _, _, _)
MergeRow(ms, plane_id, cols, segments, cfg) ==
  IF cols = {} THEN ms
  ELSE
    LET col_id == SetMin(cols)
        plane == ms.grid[segments[plane_id]]
        col == ms.grid[segments[col_id]]
    IN IF MergeAccepts(plane, col, cfg)
       THEN MergeRow([grid |-> [ms.grid EXCEPT ![segments[plane_id]] = AddStats(plane, col)],
                      labels |-> [ms.labels EXCEPT ![col_id] = plane_id],
                      expanded |-> TRUE],
                     plane_id, cols \ {col_id}, segments, cfg)
       ELSE MergeRow(ms, plane_id, cols \ {col_id}, segments, cfg)

\* a variant that takes the row itself as plane_id; C20 tells it from MergeRows
RECURSIVE MergeRowsOwnId(_, _, _, _, _)
MergeRowsOwnId(ms, row_id, assoc, segments, cfg) ==
  IF row_id >= Size(segments) THEN ms
  ELSE
    LET cols == {c \in DOMAIN segments : c > row_id /\ << row_id, c >> \in assoc}
        done == MergeRow([ms EXCEPT !.expanded = FALSE], row_id, cols, segments, cfg)
    IN MergeRowsOwnId(done, row_id + 1, assoc, segments, cfg)

\* the outer loop of mergePlanes from row_id on
RECURSIVE MergeRows(_, _, _, _, _)
MergeRows(ms, row_id, assoc, segments, cfg) ==
  IF row_id >= Size(segments) THEN ms
  ELSE
    LET plane_id == ms.labels[row_id]
        cols == {c \in DOMAIN segments : c > row_id /\ << row_id, c >> \in assoc}
        done == MergeRow([ms EXCEPT !.expanded = FALSE], plane_id, cols, segments, cfg)
        next == IF done.expanded
                THEN [done EXCEPT !.grid[segments[plane_id]] = CalculateStats(@)]
                ELSE done
    IN MergeRows(next, row_id + 1, assoc, segments, cfg)

\* mergePlanes: the cell grid holding the merged segments, and plane_merge_labels
MergePlanes(grid, segments, seg_map, cfg, wc, hc) ==
  MergeRows([grid |-> grid, labels |-> [i \in DOMAIN segments |-> i], expanded |-> FALSE],
            0, GetConnectedComponents(seg_map, wc, hc), segments, cfg)

----------------------------------------------------------------------------
(* refinePlanes and refineCells *)

CellRow(c, wc) == c \div wc

CellCol(c, wc) == c % wc

\* cv::erode with the cross kernel; cells outside the grid do not erode
Erode(mask, wc, hc) ==
  { c \in mask :
      /\ CellCol(c, wc) > 0 => (c - 1) \in mask
      /\ CellCol(c, wc) < wc - 1 => (c + 1) \in mask
      /\ CellRow(c, wc) > 0 => (c - wc) \in mask
      /\ CellRow(c, wc) < hc - 1 => (c + wc) \in mask }

\* cv::dilate with the 3x3 square kernel
Dilate(mask, wc, hc) ==
  { c \in 0 .. (wc * hc - 1) :
      \E m \in mask : /\ Abs(CellRow(c, wc) - CellRow(m, wc)) <= 1
                      /\ Abs(CellCol(c, wc) - CellCol(m, wc)) <= 1 }

\* dist < max_dist in refineCells for a point at depth z, with
\* dist = (mean - z)^2 and max_dist = refinement_coeff * plane->getMSE()
WithinMaxDist(plane, z, cfg) ==
  LET r == plane.mn - z * plane.md
  IN r * r * plane.ed < cfg.refinementMultiplierCoeff * plane.en * plane.md * plane.md

\* refineCells: seg_map_stacked_ after refining one plane over the cells of mask.
\* distances_stacked is local to the call and starts at MAXFLOAT in every entry,
\* so the test dist < distances_stacked[pt] passes for every point of the call.
RefineCells(plane, label, mask, input, stacked, cfg) ==
  LET ppc == PatchSize(cfg) * PatchSize(cfg)
  IN [pt \in DOMAIN stacked |->
        IF (pt \div ppc) \in mask /\ WithinMaxDist(plane, input[pt \div ppc].z, cfg)
        THEN label ELSE stacked[pt]]

\* the cells of the planes merged into root i (the inner loop over j >= i)
RootMask(i, mlabels, seg_map) ==
  { c \in DOMAIN seg_map :
      \E j \in DOMAIN mlabels : j >= i /\ mlabels[j] = mlabels[i] /\ seg_map[c] = j + 1 }

\* rs: [final, eroded, stacked]; the loop of refinePlanes from plane i on
RECURSIVE RefineFrom(_, _, _, _, _, _, _, _, _)
RefineFrom(rs, i, grid, segments, mlabels, seg_map, input, cfg, dims) ==
  IF i >= Size(segments) THEN rs
  ELSE IF i # mlabels[i]
  THEN RefineFrom(rs, i + 1, grid, segments, mlabels, seg_map, input, cfg, dims)
  ELSE
    LET mask == RootMask(i, mlabels, seg_map)
        mask_eroded == Erode(mask, dims[1], dims[2])
    IN IF mask_eroded = {}
       THEN RefineFrom(rs, i + 1, grid, segments, mlabels, seg_map, input, cfg, dims)
       ELSE
         LET final == PushBack(rs.final, segments[i])
             mask_diff == Dilate(mask, dims[1], dims[2]) \ mask_eroded
         IN RefineFrom(
              [final |-> final,
               eroded |-> [c \in DOMAIN rs.eroded |->
                             IF c \in mask_eroded THEN Size(final) ELSE rs.eroded[c]],
               stacked |-> RefineCells(grid[segments[i]], Size(final), mask_diff,
                                       input, rs.stacked, cfg)],
              i + 1, grid, segments, mlabels, seg_map, input, cfg, dims)

RefinePlanes(grid, segments, mlabels, seg_map, eroded, stacked, input, cfg, dims) ==
  RefineFrom([final |-> << >>, eroded |-> eroded, stacked |-> stacked],
             0, grid, segments, mlabels, seg_map, input, cfg, dims)

----------------------------------------------------------------------------
(* toLabels, coarseToLabels, cleanArtifacts *)

\* a variant of toLabels that extends the last cell row and column over the
\* margin; C6 tells it from ToLabels
ToLabelsOverMargin(eroded, stacked, h, w, cfg) ==
  LET p == PatchSize(cfg)
      wc == WCells(w, cfg)
      hc == HCells(h, cfg)
      Value(r0, c0) ==
        LET r == Min(r0, hc * p - 1)
            c == Min(c0, wc * p - 1)
            cell == (r \div p) * wc + (c \div p)
            idx == p * p * cell + (r % p) * p + (c % p)
        IN IF eroded[cell] > 0 THEN eroded[cell]
           ELSE IF stacked[idx] > 0 THEN stacked[idx] ELSE 0
  IN [rows |-> h, cols |-> w,
      data |-> [t \in 0 .. (h * w - 1) |-> Value(t \div w, t % w)]]

\* toLabels: the image_height_ x image_width_ image, row-major
ToLabels(eroded, stacked, h, w, cfg) ==
  LET p == PatchSize(cfg)
      wc == WCells(w, cfg)
      hc == HCells(h, cfg)
      Value(r, c) ==
        IF r >= hc * p \/ c >= wc * p THEN 0
        ELSE
          LET cell == (r \div p) * wc + (c \div p)
              idx == p * p * cell + (r % p) * p + (c % p)
          IN IF eroded[cell] > 0 THEN eroded[cell]
             ELSE IF stacked[idx] > 0 THEN stacked[idx] ELSE 0
  IN [rows |-> h, cols |-> w,
      data |-> [t \in 0 .. (h * w - 1) |-> Value(t \div w, t % w)]]

\* the loop of coarseToLabels from i on: setTo(labels[i], merged == i)
RECURSIVE CoarseRelabel(_, _, _)
CoarseRelabel(merged, i, mlabels) ==
  IF i >= Size(mlabels) THEN merged
  ELSE IF mlabels[i] # i
  THEN CoarseRelabel([c \in DOMAIN merged |-> IF merged[c] = i THEN mlabels[i] ELSE merged[c]],
                     i + 1, mlabels)
  ELSE CoarseRelabel(merged, i + 1, mlabels)

\* coarseToLabels: the cell grid with the merge labels substituted
CoarseToLabels(seg_map, mlabels, wc, hc) ==
  [rows |-> hc, cols |-> wc, data |-> CoarseRelabel(seg_map, 0, mlabels)]

\* std::vector::resize(n, v) on a vector that already has n elements
Resize(vec, n, v) ==
  [i \in 0 .. (n - 1) |-> IF i \in DOMAIN vec THEN vec[i] ELSE v]

----------------------------------------------------------------------------
(* Inputs: configurations, image sizes and scenes *)

\* a cell of the organized point cloud: whether the cell is planar, the
\* orientation of its fitted normal, its depth, its MSE and its diameter
\* times the sine of the merge angle
Kind(planar, o, z, mse) ==
  [planar |-> planar, o |-> o, z |-> z, mse |-> mse, diamSin |-> 0]

CellKinds ==
  { Kind(FALSE, 0, 2, 0), Kind(TRUE, 0, 0, 0), Kind(TRUE, 0, 2, 0),
    Kind(TRUE, 0, 21, 0), Kind(TRUE, 1, 4, 4) }

\* kDefaultConfig with a small histogram and small region sizes
BaseConfig ==
  [patchSize |-> 1, histogramBinsPerCoord |-> 3, minCosAngleForMerge |-> 93,
   maxMergeDist |-> 500, minRegionGrowingCandidateSize |-> 1,
   minRegionGrowingCellsActivated |-> 1, minRegionPlanarityScore |-> 50,
   doRefinement |-> TRUE, refinementMultiplierCoeff |-> 15,
   lenDen |-> 1, spread |-> 5000]

\* the configurations and the margins (image size minus the covered size)
Setups ==
  { [cfg |-> [BaseConfig EXCEPT !.patchSize = 2], mh |-> 1, mw |-> 1],
    [cfg |-> [BaseConfig EXCEPT !.doRefinement = FALSE, !.patchSize = 2,
                                !.minRegionGrowingCandidateSize = 2,
                                !.minRegionGrowingCellsActivated = 2],
     mh |-> 1, mw |-> 0],
    [cfg |-> [BaseConfig EXCEPT !.doRefinement = FALSE, !.maxMergeDist = 2],
     mh |-> 0, mw |-> 0],
    \* maxMergeDist = 1/5, lengths in fifths
    [cfg |-> [BaseConfig EXCEPT !.doRefinement = FALSE, !.maxMergeDist = 1,
                                !.lenDen = 5],
     mh |-> 0, mw |-> 0] }

Shapes ==
  { s \in (1 .. MaxCells) \X (1 .. MaxCells) : s[1] * s[2] <= MaxCells }

NoHist == [hist |-> << >>, bins |-> << >>]

NoLabels == [rows |-> 0, cols |-> 0, data |-> << >>]

\* a CellSegment left in cell_grid_ by an earlier call: findPlanarCells
\* replaces every entry before it is read, so only the pointer is kept
StalePtr == [null |-> FALSE]

----------------------------------------------------------------------------
(* The state machine *)

\* PlaneExtractor::PlaneExtractor for one of the setups and grid shapes
InitOn(setups, shapes) ==
  /\ \E u \in setups, s \in shapes :
       /\ config = u.cfg
       /\ image_height = s[1] * u.cfg.patchSize + u.mh
       /\ image_width = s[2] * u.cfg.patchSize + u.mw
  /\ cell_grid = [c \in Cells |-> NullPtr]
  /\ grid_plane_seg_map = [c \in Cells |-> 0]
  /\ grid_plane_seg_map_eroded = [c \in Cells |-> 0]
  /\ seg_map_stacked = [t \in Pixels |-> 0]
  /\ pc = "idle"
  /\ pcd = << >>
  /\ hist = NoHist
  /\ cell_dist_tols = << >>
  /\ unassigned_mask = {}
  /\ remaining_planar_cells = 0
  /\ plane_segments = << >>
  /\ merge_labels = << >>
  /\ plane_segments_final = << >>
  /\ labels = NoLabels
  /\ activated = << >>
  /\ stamped = << >>
  /\ last_activation = {}
  /\ seeds = << >>
  /\ organized_array = << >>
  /\ stacked_id = 0
  /\ grown_segments = << >>

Init == InitOn(Setups, Shapes)

PlanarFlags(input) == {c \in DOMAIN input : input[c].planar}

\* process() up to the call of createPlaneSegments: organizeByCell,
\* findPlanarCells, initializeHistogram, computeCellDistTols; the cells of the
\* frame are drawn from kinds
ProcessOn(kinds) ==
  /\ pc = "idle"
  /\ \E past_end \in {FALSE, WritesPastEnd(image_height, image_width, config)} :
       IF past_end
       THEN \* an assignment of organizeByCell outside organized_array
            /\ pc' = "crashed"
            /\ UNCHANGED << pcd, cell_grid, hist, cell_dist_tols, unassigned_mask,
                            remaining_planar_cells, plane_segments, activated,
                            stamped, last_activation, seeds >>
       ELSE /\ \E input \in [Cells -> kinds] :
                 /\ pcd' = input
                 /\ cell_grid' = [c \in Cells |-> NewCellSegment(input[c], config)]
                 /\ hist' = NewHistogram(config.histogramBinsPerCoord, cell_grid',
                                         PlanarFlags(input), Cells)
                 /\ cell_dist_tols' = ComputeCellDistTols(input, config, Cells)
                 /\ unassigned_mask' = PlanarFlags(input)
                 /\ remaining_planar_cells' = Cardinality(PlanarFlags(input))
            /\ plane_segments' = << >>
            /\ activated' = [c \in Cells |-> 0]
            /\ stamped' = [c \in Cells |-> 0]
            /\ last_activation' = {}
            /\ seeds' = << >>
            /\ pc' = "grow"
  /\ UNCHANGED << organized_array, stacked_id >>
  /\ UNCHANGED << config, image_height, image_width, grid_plane_seg_map,
                  grid_plane_seg_map_eroded, seg_map_stacked, merge_labels,
                  plane_segments_final, labels, grown_segments >>

Process == ProcessOn(CellKinds)

GrowState ==
  [grid |-> cell_grid, hist |-> hist, unassigned |-> unassigned_mask,
   remaining |-> remaining_planar_cells, segments |-> plane_segments,
   seg_map |-> grid_plane_seg_map]

\* one iteration of the while loop of createPlaneSegments; the model follows
\* the loop for at most nr_total_cells + 1 iterations
GrowStep ==
  /\ pc = "grow"
  /\ ~GrowLoopEnds(GrowState, config)
  /\ Len(seeds) <= nr_total_cells
  /\ \E seed_id \in SeedChoices(GetPointsFromMostFrequentBin(hist), cell_grid, config) :
       /\ seeds' = Append(seeds, seed_id)
       /\ IF seed_id \notin Cells
          THEN \* cell_grid_[seed_id] outside the vector: the process ends there,
               \* or growSeed is reached and throws for an index of
               \* nr_total_cells_ or more
               /\ \E thrown \in {FALSE, seed_id >= nr_total_cells} :
                    pc' = IF thrown THEN "thrown" ELSE "crashed"
               /\ last_activation' = {}
               /\ UNCHANGED << cell_grid, hist, unassigned_mask, remaining_planar_cells,
                               plane_segments, grid_plane_seg_map, activated, stamped >>
          ELSE LET nx == GrowIterationFrom(GrowState, seed_id, cell_dist_tols, config,
                                           nr_horizontal_cells, nr_vertical_cells)
               IN /\ cell_grid' = nx.grid
                  /\ hist' = nx.hist
                  /\ unassigned_mask' = nx.unassigned
                  /\ remaining_planar_cells' = nx.remaining
                  /\ plane_segments' = nx.segments
                  /\ grid_plane_seg_map' = nx.seg_map
                  /\ activated' = [c \in Cells |->
                                     IF c \in nx.act THEN activated[c] + 1 ELSE activated[c]]
                  /\ stamped' = [c \in Cells |->
                                   IF nx.emitted /\ c \in nx.act
                                   THEN stamped[c] + 1 ELSE stamped[c]]
                  /\ last_activation' = nx.act
                  /\ pc' = IF nx.oor THEN "thrown" ELSE "grow"
  /\ UNCHANGED << organized_array, stacked_id >>
  /\ UNCHANGED << config, image_height, image_width, grid_plane_seg_map_eroded,
                  seg_map_stacked, pcd, cell_dist_tols, merge_labels,
                  plane_segments_final, labels, grown_segments >>

\* createPlaneSegments returns
GrowExit ==
  /\ pc = "grow"
  /\ GrowLoopEnds(GrowState, config)
  /\ pc' = "merge"
  /\ grown_segments' = [i \in DOMAIN plane_segments |-> cell_grid[plane_segments[i]]]
  /\ UNCHANGED << organized_array, stacked_id >>
  /\ UNCHANGED << config, image_height, image_width, cell_grid,
                  grid_plane_seg_map, grid_plane_seg_map_eroded,
                  seg_map_stacked, pcd, hist, cell_dist_tols, unassigned_mask,
                  remaining_planar_cells, plane_segments, merge_labels,
                  plane_segments_final, labels, activated, stamped,
                  last_activation, seeds >>

\* mergePlanes
Merge ==
  /\ pc = "merge"
  /\ LET m == MergePlanes(cell_grid, plane_segments, grid_plane_seg_map, config,
                          nr_horizontal_cells, nr_vertical_cells)
     IN /\ cell_grid' = m.grid
        /\ merge_labels' = m.labels
  /\ pc' = IF config.doRefinement THEN "refine" ELSE "coarse"
  /\ UNCHANGED << organized_array, stacked_id >>
  /\ UNCHANGED << config, image_height, image_width, grid_plane_seg_map,
                  grid_plane_seg_map_eroded, seg_map_stacked, pcd, hist,
                  cell_dist_tols, unassigned_mask, remaining_planar_cells,
                  plane_segments, plane_segments_final, labels, activated,
                  stamped, last_activation, seeds, grown_segments >>

\* refinePlanes
Refine ==
  /\ pc = "refine"
  /\ LET r == RefinePlanes(cell_grid, plane_segments, merge_labels, grid_plane_seg_map,
                           grid_plane_seg_map_eroded, seg_map_stacked, pcd, config,
                           << nr_horizontal_cells, nr_vertical_cells >>)
     IN /\ plane_segments_final' = r.final
        /\ grid_plane_seg_map_eroded' = r.eroded
        /\ seg_map_stacked' = r.stacked
  /\ pc' = "tolabels"
  /\ UNCHANGED << organized_array, stacked_id >>
  /\ UNCHANGED << config, image_height, image_width, cell_grid,
                  grid_plane_seg_map, pcd, hist, cell_dist_tols,
                  unassigned_mask, remaining_planar_cells, plane_segments,
                  merge_labels, labels, activated, stamped, last_activation,
                  seeds, grown_segments >>

\* labels = toLabels()
WriteLabels ==
  /\ pc = "tolabels"
  /\ labels' = ToLabels(grid_plane_seg_map_eroded, seg_map_stacked, image_height,
                        image_width, config)
  /\ pc' = "clean"
  /\ UNCHANGED << organized_array, stacked_id >>
  /\ UNCHANGED << config, image_height, image_width, cell_grid,
                  grid_plane_seg_map, grid_plane_seg_map_eroded,
                  seg_map_stacked, pcd, hist, cell_dist_tols, unassigned_mask,
                  remaining_planar_cells, plane_segments, merge_labels,
                  plane_segments_final, activated, stamped, last_activation,
                  seeds, grown_segments >>

\* labels = coarseToLabels(merge_labels)
WriteCoarseLabels ==
  /\ pc = "coarse"
  /\ labels' = CoarseToLabels(grid_plane_seg_map, merge_labels,
                              nr_horizontal_cells, nr_vertical_cells)
  /\ pc' = "clean"
  /\ UNCHANGED << organized_array, stacked_id >>
  /\ UNCHANGED << config, image_height, image_width, cell_grid,
                  grid_plane_seg_map, grid_plane_seg_map_eroded,
                  seg_map_stacked, pcd, hist, cell_dist_tols, unassigned_mask,
                  remaining_planar_cells, plane_segments, merge_labels,
                  plane_segments_final, activated, stamped, last_activation,
                  seeds, grown_segments >>

\* cleanArtifacts, after which process() returns labels
CleanArtifacts ==
  /\ pc = "clean"
  /\ cell_grid' = Resize(cell_grid, nr_total_cells, NullPtr)
  /\ grid_plane_seg_map' = [c \in Cells |-> 0]
  /\ grid_plane_seg_map_eroded' = [c \in Cells |-> 0]
  /\ seg_map_stacked' = Resize(seg_map_stacked, image_height * image_width, 0)
  /\ pc' = "return"
  /\ UNCHANGED << organized_array, stacked_id >>
  /\ UNCHANGED << config, image_height, image_width, pcd, hist, cell_dist_tols,
                  unassigned_mask, remaining_planar_cells, plane_segments,
                  merge_labels, plane_segments_final, labels, activated,
                  stamped, last_activation, seeds, grown_segments >>

\* the caller has the result; the locals of process() are gone
Return ==
  /\ pc = "return"
  /\ pc' = "idle"
  /\ cell_grid' = [c \in Cells |-> IF cell_grid[c] = NullPtr THEN NullPtr ELSE StalePtr]
  /\ pcd' = << >>
  /\ hist' = NoHist
  /\ cell_dist_tols' = << >>
  /\ unassigned_mask' = {}
  /\ remaining_planar_cells' = 0
  /\ plane_segments' = << >>
  /\ merge_labels' = << >>
  /\ plane_segments_final' = << >>
  /\ labels' = NoLabels
  /\ activated' = << >>
  /\ stamped' = << >>
  /\ last_activation' = {}
  /\ seeds' = << >>
  /\ grown_segments' = << >>
  /\ UNCHANGED << organized_array, stacked_id >>
  /\ UNCHANGED << config, image_height, image_width, grid_plane_seg_map,
                  grid_plane_seg_map_eroded, seg_map_stacked >>

Next ==
  \/ Process
  \/ GrowStep
  \/ GrowExit
  \/ Merge
  \/ Refine
  \/ WriteLabels
  \/ WriteCoarseLabels
  \/ CleanArtifacts
  \/ Return

Spec == Init /\ [][Next]_vars

----------------------------------------------------------------------------
(* Region growing on frames that hold cells the seed selection passes over *)

\* cells for the region grower: not planar; planar; planar with an MSE of
\* INT_MAX; planar with the other normal
GrowKinds ==
  { Kind(FALSE, 0, 2, 0), Kind(TRUE, 0, 0, 0), Kind(TRUE, 0, 0, IntMax),
    Kind(TRUE, 1, 4, 4) }

\* no refinement, cells of one pixel; the second setup asks for two seed
\* candidates and two activated cells
GrowSetups ==
  { [cfg |-> [BaseConfig EXCEPT !.doRefinement = FALSE], mh |-> 0, mw |-> 0],
    [cfg |-> [BaseConfig EXCEPT !.doRefinement = FALSE,
                                !.minRegionGrowingCandidateSize = 2,
                                !.minRegionGrowingCellsActivated = 2],
     mh |-> 0, mw |-> 0] }

InitGrow == InitOn(GrowSetups, Shapes)

ProcessGrow == ProcessOn(GrowKinds)

NextGrow ==
  \/ ProcessGrow
  \/ GrowStep
  \/ GrowExit
  \/ Merge
  \/ WriteCoarseLabels
  \/ CleanArtifacts
  \/ Return

SpecGrow == InitGrow /\ [][NextGrow]_vars

----------------------------------------------------------------------------
(* organizeByCell, one pixel a step, for images with and without margins *)

\* patch sizes 1 .. MaxPatch with every margin below the patch size
OrganizeSetups ==
  { [cfg |-> [BaseConfig EXCEPT !.patchSize = p], mh |-> a, mw |-> b] :
      << p, a, b >> \in { t \in (1 .. MaxPatch) \X (0 .. (MaxPatch - 1))
                                               \X (0 .. (MaxPatch - 1)) :
                           t[2] < t[1] /\ t[3] < t[1] } }

OrganizeShapes == (1 .. MaxGridSide) \X (1 .. MaxGridSide)

InitOrganize == InitOn(OrganizeSetups, OrganizeShapes)

\* process() allocates organized_array and calls organizeByCell
StartOrganize ==
  /\ pc = "idle"
  /\ organized_array' = [i \in 0 .. (3 * image_height * image_width - 1) |-> -1]
  /\ stacked_id' = 0
  /\ pc' = "organize"
  /\ UNCHANGED << config, image_height, image_width, cell_grid, grid_plane_seg_map,
                  grid_plane_seg_map_eroded, seg_map_stacked, pcd, hist,
                  cell_dist_tols, unassigned_mask, remaining_planar_cells,
                  plane_segments, merge_labels, plane_segments_final, labels,
                  activated, stamped, last_activation, seeds, grown_segments >>

\* one pass of the inner loop of organizeByCell; after an assignment past the
\* end of out the loop goes on or the process ends
OrganizeStep ==
  /\ pc = "organize"
  /\ stacked_id < image_height * image_width
  /\ LET mxn == image_height * image_width
         shift == Shift(stacked_id, image_width, config, nr_horizontal_cells)
     IN /\ organized_array' = OrganizeWrite(organized_array, stacked_id, shift, mxn)
        /\ \E past_end \in {FALSE, shift >= mxn} :
             pc' = IF past_end THEN "crashed" ELSE "organize"
  /\ stacked_id' = stacked_id + 1
  /\ UNCHANGED << config, image_height, image_width, cell_grid, grid_plane_seg_map,
                  grid_plane_seg_map_eroded, seg_map_stacked, pcd, hist,
                  cell_dist_tols, unassigned_mask, remaining_planar_cells,
                  plane_segments, merge_labels, plane_segments_final, labels,
                  activated, stamped, last_activation, seeds, grown_segments >>

\* organizeByCell returns
OrganizeReturn ==
  /\ pc = "organize"
  /\ stacked_id = image_height * image_width
  /\ pc' = "organized"
  /\ UNCHANGED << config, image_height, image_width, cell_grid, grid_plane_seg_map,
                  grid_plane_seg_map_eroded, seg_map_stacked, pcd, hist,
                  cell_dist_tols, unassigned_mask, remaining_planar_cells,
                  plane_segments, merge_labels, plane_segments_final, labels,
                  activated, stamped, last_activation, seeds, organized_array,
                  stacked_id, grown_segments >>

NextOrganize ==
  \/ StartOrganize
  \/ OrganizeStep
  \/ OrganizeReturn

SpecOrganize == InitOrganize /\ [][NextOrganize]_vars

----------------------------------------------------------------------------
(* Merging on a grid of two rows and three columns: the first call of
   process() on a new PlaneExtractor *)

\* cells for the merger: not planar; planar at depths 0, 2/5 and 4/5
WideKinds ==
  { Kind(FALSE, 0, 2, 0), Kind(TRUE, 0, 0, 0), Kind(TRUE, 0, 2, 0),
    Kind(TRUE, 0, 4, 0) }

\* maxMergeDist = 1/5, lengths in fifths: the grower's tolerance is 1/25, the
\* merger compares the squared distance with 1/5; without and with refinement
WideSetups ==
  { [cfg |-> [BaseConfig EXCEPT !.doRefinement = FALSE, !.maxMergeDist = 1,
                                !.lenDen = 5],
     mh |-> 0, mw |-> 0],
    [cfg |-> [BaseConfig EXCEPT !.maxMergeDist = 1, !.lenDen = 5],
     mh |-> 0, mw |-> 0] }

WideShapes == { << 2, 3 >> }

InitWide == InitOn(WideSetups, WideShapes)

ProcessWide == ProcessOn(WideKinds)

NextWide ==
  \/ ProcessWide
  \/ GrowStep
  \/ GrowExit
  \/ Merge
  \/ Refine
  \/ WriteLabels
  \/ WriteCoarseLabels
  \/ CleanArtifacts

SpecWide == InitWide /\ [][NextWide]_vars

----------------------------------------------------------------------------
(* process() as a function of the input and of the state the object holds *)

\* the while loop of createPlaneSegments, run to its exit
RECURSIVE GrowLoop(_, _, _, _, _)
GrowLoop(st, tols, cfg, wc, hc) ==
  IF GrowLoopEnds(st, cfg) THEN st
  ELSE GrowLoop(GrowIteration(st, tols, cfg, wc, hc), tols, cfg, wc, hc)

\* the label image process() computes for input on an object whose label
\* grids and stacked buffer hold seg_map0, eroded0 and stacked0
ProcessImage(input, seg_map0, eroded0, stacked0, cfg, h, w) ==
  LET wc == WCells(w, cfg)
      hc == HCells(h, cfg)
      cells == 0 .. (wc * hc - 1)
      grid0 == [c \in cells |-> NewCellSegment(input[c], cfg)]
      grown == GrowLoop([grid |-> grid0,
                         hist |-> NewHistogram(cfg.histogramBinsPerCoord, grid0,
                                               PlanarFlags(input), cells),
                         unassigned |-> PlanarFlags(input),
                         remaining |-> Cardinality(PlanarFlags(input)),
                         segments |-> << >>,
                         seg_map |-> seg_map0],
                        ComputeCellDistTols(input, cfg, cells), cfg, wc, hc)
      m == MergePlanes(grown.grid, grown.segments, grown.seg_map, cfg, wc, hc)
  IN IF cfg.doRefinement
     THEN LET r == RefinePlanes(m.grid, grown.segments, m.labels, grown.seg_map,
                                eroded0, stacked0, input, cfg, << wc, hc >>)
          IN ToLabels(r.eroded, r.stacked, h, w, cfg)
     ELSE CoarseToLabels(grown.seg_map, m.labels, wc, hc)

\* process() on a freshly constructed PlaneExtractor
FreshImage(input, cfg, h, w) ==
  ProcessImage(input,
               [c \in 0 .. (WCells(w, cfg) * HCells(h, cfg) - 1) |-> 0],
               [c \in 0 .. (WCells(w, cfg) * HCells(h, cfg) - 1) |-> 0],
               [t \in 0 .. (h * w - 1) |-> 0], cfg, h, w)

----------------------------------------------------------------------------
(* Vocabulary of the claims *)

\* the number of planes that survive merging (and erosion, when refining)
KFinal ==
  IF config.doRefinement THEN Size(plane_segments_final)
  ELSE Cardinality({merge_labels[i] : i \in DOMAIN merge_labels})

\* the cell of the pixel at index t of an image_height x image_width image,
\* or -1 for a pixel of the right or bottom margin
CellOfPixel(t) ==
  LET r == t \div image_width
      c == t % image_width
      p == PatchSize(config)
  IN IF r >= nr_vertical_cells * p \/ c >= nr_horizontal_cells * p THEN -1
     ELSE (r \div p) * nr_horizontal_cells + (c \div p)

\* two cells are horizontal or vertical neighbours
Neighbours(c1, c2) ==
  \/ /\ CellRow(c1, nr_horizontal_cells) = CellRow(c2, nr_horizontal_cells)
     /\ Abs(c1 - c2) = 1
  \/ Abs(c1 - c2) = nr_horizontal_cells

\* plane segments a and b (0-based) are adjacent in the cell-label grid
Adjacent(a, b) ==
  \E c1, c2 \in Cells : /\ Neighbours(c1, c2)
                        /\ grid_plane_seg_map[c1] = a + 1
                        /\ grid_plane_seg_map[c2] = b + 1

\* the point-to-plane distance of two parallel segments exceeds maxMergeDist
FartherThanMaxMergeDist(sa, sb) ==
  Abs(sa.mn * sb.md - sb.mn * sa.md) > config.maxMergeDist * sa.md * sb.md

\* the positive labels the image shows on the cells of plane segment a
LabelsOfPlane(a) ==
  IF config.doRefinement
  THEN { labels.data[t] : t \in { u \in DOMAIN labels.data :
           /\ CellOfPixel(u) >= 0
           /\ grid_plane_seg_map[CellOfPixel(u)] = a + 1
           /\ labels.data[u] > 0 } }
  ELSE { labels.data[c] : c \in { d \in DOMAIN labels.data :
           grid_plane_seg_map[d] = a + 1 /\ labels.data[d] > 0 } }

----------------------------------------------------------------------------
(* Claims *)

\* C1: the image process() returns for an input does not depend on the calls
\* made before on the same instance: it is the image a freshly constructed
\* instance returns for that input.
C1_OutputIndependentOfHistory ==
  pc = "return" => labels = FreshImage(pcd, config, image_height, image_width)

\* C2: with doRefinement true and with doRefinement false, process() returns
\* exactly image_height * image_width labels, each of them in 0 .. K_final.
C2_LengthAndRange ==
  pc = "return" =>
    /\ Size(labels.data) = image_height * image_width
    /\ \A t \in DOMAIN labels.data : labels.data[t] \in 0 .. KFinal

\* C4: with doRefinement false, two cells with positive entries in the
\* cell-label grid get the same output label exactly when their segments have
\* the same merge root, and no such cell gets the output label 0.
C4_CoarseLabelsFollowRoots ==
  (pc = "clean" /\ ~config.doRefinement) =>
    \A c1, c2 \in Cells :
      (grid_plane_seg_map[c1] > 0 /\ grid_plane_seg_map[c2] > 0) =>
        /\ labels.data[c1] # 0
        /\ (labels.data[c1] = labels.data[c2]) <=>
             (merge_labels[grid_plane_seg_map[c1] - 1] =
                merge_labels[grid_plane_seg_map[c2] - 1])

\* C5: the positive labels of the returned image are exactly 1 .. K_final:
\* none is skipped and none lies beyond K_final.
C5_LabelsContiguous ==
  pc = "return" =>
    { labels.data[t] : t \in DOMAIN labels.data } \ {0} = 1 .. KFinal

\* C6: every pixel of the returned image in a row at or beyond
\* H_cells * patchSize or in a column at or beyond W_cells * patchSize is 0.
C6_MarginIsZero ==
  pc \in {"clean", "return"} =>
    \A t \in DOMAIN labels.data :
      ( \/ t \div labels.cols >= nr_vertical_cells * PatchSize(config)
        \/ t % labels.cols >= nr_horizontal_cells * PatchSize(config) )
      => labels.data[t] = 0

\* C6 happens: a refined image with a margin and with a labelled pixel
C6_Witness ==
  /\ pc = "return"
  /\ config.doRefinement
  /\ \E t \in DOMAIN labels.data :
       t % labels.cols >= nr_horizontal_cells * PatchSize(config)
  /\ \E t \in DOMAIN labels.data : labels.data[t] > 0

\* C7: during region growing a cell is activated in at most one grow, its
\* entry of the cell-label grid is stamped at most once, and an entry never
\* changes from one positive label to another.
C7_ActivatedOnce ==
  [][ pc = "grow" =>
        \A c \in Cells :
          /\ activated'[c] <= 1
          /\ stamped'[c] <= 1
          /\ grid_plane_seg_map[c] > 0 =>
               grid_plane_seg_map'[c] = grid_plane_seg_map[c] ]_vars

\* C7 happens: a second plane segment has been stamped next to a first one
C7_Witness ==
  /\ pc = "grow"
  /\ Size(plane_segments) >= 2
  /\ \E c \in Cells : activated[c] = 1 /\ stamped[c] = 1 /\ grid_plane_seg_map[c] = 1
  /\ \E c \in Cells : activated[c] = 1 /\ stamped[c] = 1 /\ grid_plane_seg_map[c] = 2

\* C10: when process() returns, the cell-label grid and the eroded grid are
\* all zero, every entry of seg_map_stacked_ is zero and the pointers of the
\* cell grid are cleared.
C10_StateResetAtReturn ==
  pc = "return" =>
    /\ \A c \in Cells : grid_plane_seg_map[c] = 0 /\ grid_plane_seg_map_eroded[c] = 0
    /\ \A t \in DOMAIN seg_map_stacked : seg_map_stacked[t] = 0
    /\ \A c \in Cells : cell_grid[c] = NullPtr

----------------------------------------------------------------------------
(* Claims on merging and refinement *)

\* mergePlanes has run and its results are still held
Merged == pc \in {"refine", "coarse", "tolabels", "clean"}

\* the roots whose mask is not eroded away: the planes refinePlanes keeps
SurvivingRoots ==
  { i \in DOMAIN plane_segments :
      /\ merge_labels[i] = i
      /\ Erode(RootMask(i, merge_labels, grid_plane_seg_map),
               nr_horizontal_cells, nr_vertical_cells) # {} }

\* the label refinePlanes gives root i: its place in plane_segments_final
FinalLabel(i) == Cardinality({ j \in SurvivingRoots : j <= i })

\* the boundary band of root i: the dilated mask minus the eroded mask
Band(i) ==
  LET mask == RootMask(i, merge_labels, grid_plane_seg_map)
  IN Dilate(mask, nr_horizontal_cells, nr_vertical_cells)
       \ Erode(mask, nr_horizontal_cells, nr_vertical_cells)

\* the squared residual of a point at depth z to plane a is at most the one
\* to plane b
ResidualLeq(a, b, z) ==
  LET ra == a.mn - z * a.md
      rb == b.mn - z * b.md
  IN ra * ra * b.md * b.md <= rb * rb * a.md * a.md

\* the planes whose band covers point pt with a residual below max_dist
Claimants(pt) ==
  { i \in SurvivingRoots :
      /\ (pt \div nr_pts_per_cell) \in Band(i)
      /\ WithinMaxDist(cell_grid[plane_segments[i]], pcd[pt \div nr_pts_per_cell].z,
                       config) }

\* C3: when the bands of several planes cover a pixel whose squared residual
\* is below max_dist for more than one of them, the pixel's entry of
\* seg_map_stacked_ ends as the final label of a plane with the smallest
\* squared residual among them.
C3_SmallestResidualWins ==
  pc = "tolabels" =>
    \A pt \in 0 .. (nr_total_cells * nr_pts_per_cell - 1) :
      Cardinality(Claimants(pt)) > 1 =>
        \E i \in Claimants(pt) :
          /\ seg_map_stacked[pt] = FinalLabel(i)
          /\ \A j \in Claimants(pt) :
               ResidualLeq(cell_grid[plane_segments[i]], cell_grid[plane_segments[j]],
                           pcd[pt \div nr_pts_per_cell].z)

\* C8: two plane segments that are adjacent somewhere in the cell-label grid
\* and whose normals and offsets pass the merge test have the same merge
\* root after mergePlanes.
C8_AdjacentCompatibleMerged ==
  Merged =>
    \A a, b \in DOMAIN plane_segments :
      ( /\ a # b
        /\ Adjacent(a, b)
        /\ MergeAccepts(grown_segments[a], grown_segments[b], config)
        /\ MergeAccepts(grown_segments[b], grown_segments[a], config) )
      => merge_labels[a] = merge_labels[b]

\* plane segments a and b are adjacent and parallel, and farther apart than
\* maxMergeDist
FarNeighbours(a, b) ==
  /\ a # b
  /\ Adjacent(a, b)
  /\ CosAngle(grown_segments[a], grown_segments[b]) = 100
  /\ FartherThanMaxMergeDist(grown_segments[a], grown_segments[b])

\* C9 as stated: for every positive maxMergeDist, two adjacent parallel plane
\* segments farther apart than maxMergeDist keep distinct merge roots and
\* share no output label.
C9_FarNeverMerged ==
  Merged =>
    \A a, b \in DOMAIN plane_segments :
      FarNeighbours(a, b) =>
        /\ merge_labels[a] # merge_labels[b]
        /\ pc = "clean" => LabelsOfPlane(a) \cap LabelsOfPlane(b) = {}

\* C9 amended: when maxMergeDist is at least 1 and the frame has exactly two
\* plane segments, adjacent and parallel and farther apart than maxMergeDist,
\* they keep distinct merge roots, and with doRefinement false each gets an
\* output label the other does not have.
C9_FarNotMergedFromOne ==
  (Merged /\ config.maxMergeDist >= config.lenDen /\ Size(plane_segments) = 2) =>
    \A a, b \in DOMAIN plane_segments :
      FarNeighbours(a, b) =>
        /\ merge_labels[a] # merge_labels[b]
        /\ (pc = "clean" /\ ~config.doRefinement) =>
             /\ LabelsOfPlane(a) # {}
             /\ LabelsOfPlane(b) # {}
             /\ LabelsOfPlane(a) \cap LabelsOfPlane(b) = {}

\* C9 happens: mergePlanes has tested two far neighbours and the coarse image
\* is written
C9_Witness ==
  /\ pc = "clean"
  /\ ~config.doRefinement
  /\ config.maxMergeDist >= config.lenDen
  /\ Size(plane_segments) = 2
  /\ FarNeighbours(0, 1)
  /\ << 0, 1 >> \in GetConnectedComponents(grid_plane_seg_map, nr_horizontal_cells,
                                           nr_vertical_cells)

----------------------------------------------------------------------------
(* The histogram during region growing *)

\* the cells the histogram was built over and removePoint has not been called on
InHistogram == {i \in Cells : i \in PlanarFlags(pcd) /\ activated[i] = 0}

\* C11: after construction and after any removePoint calls of the region
\* grower, bins[i] = -1 exactly for the cells that are not in the histogram,
\* every other cell's bin holds a positive counter, and every counter equals
\* the number of cells whose bins entry is that bin.
C11_HistogramConsistent ==
  pc = "grow" =>
    /\ \A i \in Cells : (hist.bins[i] = -1) <=> (i \notin InHistogram)
    /\ \A i \in InHistogram :
         hist.bins[i] \in DOMAIN hist.hist /\ hist.hist[hist.bins[i]] > 0
    /\ \A b \in DOMAIN hist.hist :
         hist.hist[b] = Cardinality({i \in Cells : hist.bins[i] = b})

\* points were removed from one bin while two bins still hold points
C11_Witness ==
  /\ pc = "grow"
  /\ \E i \in PlanarFlags(pcd) : activated[i] > 0
  /\ \E i, j \in InHistogram : hist.bins[i] # hist.bins[j]
  /\ \E i \in InHistogram, j \in PlanarFlags(pcd) \ InHistogram :
       BinOf(pcd[j].o, config.histogramBinsPerCoord) = hist.bins[i]

----------------------------------------------------------------------------
(* The cell-label grid during region growing *)

\* C12: after every growth iteration each entry of the cell-label grid is 0
\* or one of 1 .. K, K the number of segments emitted so far; entries other
\* than 0 are on planar cells that are no longer unassigned; every id of
\* 1 .. K is on at least one cell.
C12_GridLabels ==
  pc = "grow" =>
    LET K == Size(plane_segments) IN
      /\ \A c \in Cells : grid_plane_seg_map[c] \in 0 .. K
      /\ \A c \in Cells :
           grid_plane_seg_map[c] # 0 =>
             c \in PlanarFlags(pcd) /\ c \notin unassigned_mask
      /\ \A k \in 1 .. K : \E c \in Cells : grid_plane_seg_map[c] = k

\* two segments were emitted, a grow was discarded and a cell is still unassigned
C12_Witness ==
  /\ pc = "grow"
  /\ Size(plane_segments) >= 2
  /\ \E c \in Cells : activated[c] > 0 /\ grid_plane_seg_map[c] = 0
  /\ unassigned_mask # {}

----------------------------------------------------------------------------
(* The statistics of an emitted segment *)

\* count and sums of the cells of cs as findPlanarCells built them, each cell once
RECURSIVE SumOfCells(_)
SumOfCells(cs) ==
  IF cs = {} THEN [n |-> 0, sz |-> 0, szz |-> 0]
  ELSE LET c == SetMin(cs)
           own == NewCellSegment(pcd[c], config)
           rest == SumOfCells(cs \ {c})
       IN [n |-> own.n + rest.n, sz |-> own.sz + rest.sz, szz |-> own.szz + rest.szz]

\* the cells activated in the grow that emitted segment k (0-based)
CellsOfSegment(k) == {c \in Cells : grid_plane_seg_map[c] = k + 1}

\* C13: the count and the sums of every emitted segment are those of the
\* cells activated in its grow, each cell counted exactly once, the seed
\* included.
C13_EachCellCountedOnce ==
  pc = "merge" =>
    \A k \in DOMAIN grown_segments :
      LET sum == SumOfCells(CellsOfSegment(k)) IN
        /\ grown_segments[k].n = sum.n
        /\ grown_segments[k].sz = sum.sz
        /\ grown_segments[k].szz = sum.szz

----------------------------------------------------------------------------
(* The statistics of a merged segment *)

\* the sum of the counts the segments of js had before mergePlanes
RECURSIVE CountBeforeMerge(_)
CountBeforeMerge(js) ==
  IF js = {} THEN 0
  ELSE LET j == SetMin(js) IN grown_segments[j].n + CountBeforeMerge(js \ {j})

\* C14: after mergePlanes the count of every root r is its own count before
\* the merge plus the counts before the merge of exactly the segments j # r
\* whose final label is r: no segment is added into two segments or twice.
C14_AddedIntoItsRootOnly ==
  pc \in {"refine", "coarse"} =>
    \A r \in DOMAIN plane_segments :
      merge_labels[r] = r =>
        cell_grid[plane_segments[r]].n =
          CountBeforeMerge({j \in DOMAIN plane_segments : merge_labels[j] = r})

----------------------------------------------------------------------------
(* The association matrix of getConnectedComponents *)

\* C15: the association matrix is symmetric and holds a pair (a, b) exactly
\* when a # b are positive labels on two horizontally or vertically
\* neighbouring cells anywhere in the grid, last row and last column included.
C15_AssociationIsAdjacency ==
  pc = "merge" =>
    LET assoc == GetConnectedComponents(grid_plane_seg_map, nr_horizontal_cells,
                                        nr_vertical_cells)
    IN /\ \A p \in assoc : << p[2], p[1] >> \in assoc
       /\ \A a, b \in DOMAIN plane_segments :
            << a, b >> \in assoc <=> (a # b /\ Adjacent(a, b))

----------------------------------------------------------------------------
(* Termination of the growth loop *)

\* C16: the growth loop terminates: every iteration activates at least its
\* seed, so remaining_planar_cells falls by at least one per iteration and
\* the iterations made plus the cells remaining never exceed the planar
\* cells of the frame; when the loop has ended, no planar cell is left or the
\* most populous bin holds fewer than minRegionGrowingCandidateSize cells.
C16_GrowthLoopTerminates ==
  /\ pc = "grow" =>
       /\ Len(seeds) + remaining_planar_cells <= Cardinality(PlanarFlags(pcd))
       /\ seeds # << >> => seeds[Len(seeds)] \in last_activation
  /\ pc = "merge" =>
       \/ remaining_planar_cells = 0
       \/ Cardinality(GetPointsFromMostFrequentBin(hist))
            < config.minRegionGrowingCandidateSize

----------------------------------------------------------------------------
(* The shape of a grown region *)

\* the cells of S reached from the cells of from over steps to the left, right,
\* upper and lower neighbour inside S
RECURSIVE Reach(_, _)
Reach(from, S) ==
  LET step == from \cup {c \in S : \E d \in from : Neighbours(c, d)} IN
    IF step = from THEN from ELSE Reach(step, S)

FourConnected(S) == S = {} \/ Reach({SetMin(S)}, S) = S

\* C17: the set activated by one growSeed call contains the seed, holds only
\* cells that were unassigned when the grow started (planar and activated for
\* the first time), and is 4-connected; so the cells carrying one label form
\* a 4-connected set of planar cells.
C17_GrowIsConnected ==
  /\ (pc = "grow" /\ seeds # << >>) =>
       /\ seeds[Len(seeds)] \in last_activation
       /\ \A c \in last_activation : c \in PlanarFlags(pcd) /\ activated[c] = 1
       /\ FourConnected(last_activation)
  /\ pc = "merge" =>
       \A k \in DOMAIN plane_segments :
         /\ CellsOfSegment(k) \subseteq PlanarFlags(pcd)
         /\ FourConnected(CellsOfSegment(k))

----------------------------------------------------------------------------
(* Discarded grows *)

\* the cells of the grows that emitted no segment: activated and not stamped
Discarded == {c \in Cells : activated[c] > 0 /\ stamped[c] = 0}

\* C18: the cells of a discarded grow (too few cells activated, or a score not
\* above the threshold) are out of the unassigned mask and of the histogram,
\* and from then on to the end of region growing no step chooses one of them
\* as seed, activates it again or gives it a label other than 0.
C18_DiscardedStayOut ==
  [][pc = "grow" =>
       \A c \in Discarded :
         /\ c \notin unassigned_mask
         /\ hist.bins[c] = -1
         /\ seeds' # seeds => seeds'[Len(seeds')] # c
         /\ activated'[c] = activated[c]
         /\ grid_plane_seg_map'[c] = 0]_vars

----------------------------------------------------------------------------
(* Seed selection *)

\* C19: in every iteration that has enough seed candidates the seed is a
\* candidate of the smallest MSE and, among the candidates of that MSE, the
\* one of the smallest index, whatever the MSE values of the candidates are.
C19_SeedIsSmallestMse ==
  [][(pc = "grow" /\ seeds' # seeds) =>
       LET seed_candidates == GetPointsFromMostFrequentBin(hist)
           seed_id == seeds'[Len(seeds')]
       IN /\ seed_id \in seed_candidates
          /\ \A c \in seed_candidates :
               /\ ~MseLess(cell_grid[c], cell_grid[seed_id])
               /\ ~MseLess(cell_grid[seed_id], cell_grid[c]) => seed_id <= c]_vars

----------------------------------------------------------------------------
(* The merge labels *)

\* the segments that are their own merge label
Roots == {i \in DOMAIN merge_labels : merge_labels[i] = i}

\* C20: after mergePlanes every label is at most its index and is the label
\* of a root (labels[labels[i]] = labels[i]); so the masks refinePlanes
\* builds for the roots are pairwise disjoint and cover exactly the cells
\* that carry a label.
C20_LabelsAreRoots ==
  Merged =>
    /\ \A i \in DOMAIN merge_labels :
         /\ merge_labels[i] \in DOMAIN merge_labels
         /\ merge_labels[i] <= i
         /\ merge_labels[merge_labels[i]] = merge_labels[i]
    /\ \A r1, r2 \in Roots :
         r1 # r2 => RootMask(r1, merge_labels, grid_plane_seg_map)
                      \cap RootMask(r2, merge_labels, grid_plane_seg_map) = {}
    /\ UNION {RootMask(r, merge_labels, grid_plane_seg_map) : r \in Roots}
         = {c \in Cells : grid_plane_seg_map[c] > 0}

\* refinement is on, a segment was relabelled twice by mergePlanes (added into
\* two roots, C14) and two roots are left
C20_Witness ==
  /\ pc = "refine"
  /\ Cardinality(Roots) >= 2
  /\ \E i \in DOMAIN merge_labels :
       /\ merge_labels[i] # i
       /\ \E r \in Roots :
            /\ r < merge_labels[i]
            /\ << r, i >> \in GetConnectedComponents(grid_plane_seg_map,
                                   nr_horizontal_cells, nr_vertical_cells)
            /\ MergeAccepts(grown_segments[r], grown_segments[i], config)

----------------------------------------------------------------------------
(* The unassigned mask and the histogram *)

\* C21: at the start of every iteration of the growth loop the cells of
\* unassigned_mask are the cells whose bins entry is not -1, and
\* remaining_planar_cells is their number; so removePoint is called at most
\* once per cell and only on planar cells, never on an entry that is -1.
C21_MaskMatchesHistogram ==
  pc = "grow" =>
    /\ unassigned_mask = {i \in Cells : hist.bins[i] # -1}
    /\ remaining_planar_cells = Cardinality(unassigned_mask)
    /\ \A c \in Cells :
         activated[c] > 0 => activated[c] = 1 /\ c \in PlanarFlags(pcd)

\* after two iterations a planar cell is still unassigned, another is removed,
\* and the frame has a cell that is not planar
C21_Witness ==
  /\ pc = "grow"
  /\ Len(seeds) >= 2
  /\ unassigned_mask # {}
  /\ \E c \in Cells : activated[c] = 1
  /\ PlanarFlags(pcd) # Cells

----------------------------------------------------------------------------
(* The re-laid point cloud *)

\* C22: after organizeByCell, for every cell (cr, cc) of the grid and every
\* local offset (lr, lc), slot (cr * W_cells + cc) * P * P + lr * P + lc of
\* the re-laid array holds the three coordinates of the input point of pixel
\* (cr * P + lr, cc * P + lc), whether or not P divides H and W.
C22_CellMajorLayout ==
  pc = "organized" =>
    LET P == PatchSize(config)
        mxn == image_height * image_width
    IN \A cr \in 0 .. (nr_vertical_cells - 1), cc \in 0 .. (nr_horizontal_cells - 1),
          lr \in 0 .. (P - 1), lc \in 0 .. (P - 1), k \in 0 .. 2 :
         organized_array[k * mxn + (cr * nr_horizontal_cells + cc) * P * P + lr * P + lc]
           = k * mxn + (cr * P + lr) * image_width + (cc * P + lc)

\* C23: every destination index organizeByCell writes lies in
\* 0 .. H * W - 1, for the pixels of the margins as well.
C23_WritesInsideArray ==
  (pc \in {"organize", "organized", "crashed"} /\ stacked_id > 0) =>
    Shift(stacked_id - 1, image_width, config, nr_horizontal_cells)
      \in 0 .. (image_height * image_width - 1)

----------------------------------------------------------------------------
(* The out_of_range guard of growSeed *)

\* C24: the out_of_range guard of growSeed is never triggered by a call
\* reachable from createPlaneSegments, so process() never ends on that error
\* path.
C24_GuardNeverThrows == pc # "thrown"

====
